---- MODULE Spec2Model ----
(***************************************************************************)
(* my-fav-channel: the HTTP handler of src/api/index.ts and the resolver   *)
(* fetchMostActiveChannelImage of src/unnamed/part_000.                     *)
(*                                                                         *)
(* Spec      one request, from the query check to the response; a step is  *)
(*           the code that runs between two awaits.                        *)
(* FairSpec  Spec with every awaited call eventually settling.             *)
(* ScanSpec  the aggregation loop and the max reduction of the resolver,   *)
(*           one cast per step, over every bounded cast list.              *)
(*                                                                         *)
(* JavaScript strings are TLA+ strings (TLC evaluates Len, \o and SubSeq   *)
(* on them), so substring tests and message building are computed.         *)
(***************************************************************************)
EXTENDS Integers, Sequences, FiniteSets, TLC

\* ------------------------------------------------------------- bounds
\* longest generated address string
MaxAddrLen == 3
\* longest cast list the feed lookup answers with under Spec
MaxFeedCasts == 2
\* longest cast list scanned under ScanSpec
MaxCasts == 4

\* ------------------------------------------------------------- strings
\* String.prototype.includes
Includes(s, needle) ==
    \E i \in 0..(Len(s) - Len(needle)) : SubSeq(s, i + 1, i + Len(needle)) = needle

UpperChars == "ABCDEFGHIJKLMNOPQRSTUVWXYZ"

LowerChars == "abcdefghijklmnopqrstuvwxyz"

LowerChar(c) ==
    IF \E i \in 1..Len(UpperChars) : SubSeq(UpperChars, i, i) = c
    THEN LET i == CHOOSE j \in 1..Len(UpperChars) : SubSeq(UpperChars, j, j) = c
         IN  SubSeq(LowerChars, i, i)
    ELSE c

\* String.prototype.toLowerCase
RECURSIVE LowerFrom(_, _)
LowerFrom(s, i) ==
    IF i > Len(s) THEN "" ELSE LowerChar(SubSeq(s, i, i)) \o LowerFrom(s, i + 1)

ToLowerCase(s) == LowerFrom(s, 1)

DigitChars == "0123456789"

\* a number in a template literal
RECURSIVE DecimalString(_)
DecimalString(n) ==
    IF n < 10 THEN SubSeq(DigitChars, n + 1, n + 1)
    ELSE DecimalString(n \div 10) \o SubSeq(DigitChars, (n % 10) + 1, (n % 10) + 1)

RECURSIVE StringsUpTo(_, _)
StringsUpTo(chars, n) ==
    IF n = 0 THEN {""}
    ELSE LET shorter == StringsUpTo(chars, n - 1)
         IN  shorter \cup {s \o c : s \in shorter, c \in chars}

\* an optional string field: {} is undefined, {s} is the string s
Undefined == {}

Truthy(opt) == opt # {} /\ opt # {""}

\* a || b
JsOr(a, b) == IF Truthy(a) THEN a ELSE b

ValueOf(opt) == CHOOSE s \in opt : TRUE

\* ------------------------------------------------------------- inputs
\* req.query.address: absent, one string (possibly empty), or a string array
\* when the parameter is repeated
AddrChars == {"4", "2", "9"}

SampleAddresses ==
    { "0x8617E340B3D01FA5F11F306F4090FD50E238070D",
      "0x52908400098527886e0f7030069857d2e4169ee7",
      "0x1f9840a85d5aF5bf1D1762F925BDADdC4201F984",
      "0xde0B295669a9FD93d5F28D9Ec85E40f4cb694290",
      "Invalid address",
      "Rate limit exceeded" }

AddressStrings == StringsUpTo(AddrChars, MaxAddrLen) \cup SampleAddresses

Addresses ==
    { [kind |-> "absent", str |-> ""], [kind |-> "array", str |-> ""] }
        \cup { [kind |-> "string", str |-> s] : s \in AddressStrings }

\* casts of the feed answer (NeynarUserCastResponse.casts)
NoChannelCast ==
    [hasChannel |-> FALSE, id |-> "", name |-> "", image_url |-> Undefined,
     imageUrl |-> Undefined]

ChannelCast(id, name, image_url, imageUrl) ==
    [hasChannel |-> TRUE, id |-> id, name |-> name, image_url |-> image_url,
     imageUrl |-> imageUrl]

CastPool ==
    { NoChannelCast,
      ChannelCast("memes", "Memes", {"img:memes"}, Undefined),
      ChannelCast("memes", "Memes again", Undefined, {"img:memes-alt"}),
      ChannelCast("dev", "Dev", {""}, Undefined),
      ChannelCast("10", "Ten", {""}, {"img:ten"}),
      ChannelCast("7", "Seven", {"img:seven"}, {"img:seven-alt"}),
      ChannelCast("constructor", "Constructor", {"img:ctor"}, Undefined) }

RECURSIVE CastLists(_)
CastLists(n) ==
    IF n = 0 THEN {<<>>}
    ELSE LET shorter == CastLists(n - 1)
         IN  shorter \cup {Append(l, c) : l \in shorter, c \in CastPool}

\* ------------------------------------------------------------- resolver
\* property names every object literal inherits from Object.prototype
ObjectPrototypeKeys ==
    { "constructor", "toString", "toLocaleString", "valueOf", "hasOwnProperty",
      "isPrototypeOf", "propertyIsEnumerable", "__proto__" }

\* channelActivity is the sequence of its own entries in insertion order
HasOwn(activity, id) == \E i \in 1..Len(activity) : activity[i].id = id

\* !channelActivity[id]: an own entry is an object, an inherited property is a
\* function or an object; both are truthy
LookupIsFalsy(activity, id) == ~HasOwn(activity, id) /\ id \notin ObjectPrototypeKeys

\* image_url || imageUrl || ""
ChannelImageUrl(channel) ==
    ValueOf(JsOr(JsOr(channel.image_url, channel.imageUrl), {""}))

\* channelActivity[id].count++ : on an own entry it counts; on an inherited
\* property the write lands on the inherited object and adds no own entry
CountUp(activity, id) ==
    [i \in 1..Len(activity) |->
        IF activity[i].id = id
        THEN [activity[i] EXCEPT !.count = activity[i].count + 1]
        ELSE activity[i]]

\* the body of the for loop
ScanStep(activity, cast) ==
    IF cast.hasChannel
    THEN LET created ==
                 IF LookupIsFalsy(activity, cast.id)
                 THEN Append(activity,
                             [id |-> cast.id, count |-> 0,
                              imageUrl |-> ChannelImageUrl(cast), name |-> cast.name])
                 ELSE activity
         IN  CountUp(created, cast.id)
    ELSE activity

RECURSIVE Aggregate(_)
Aggregate(castList) ==
    IF castList = <<>> THEN <<>>
    ELSE ScanStep(Aggregate(SubSeq(castList, 1, Len(castList) - 1)),
                  castList[Len(castList)])

IsDigit(c) == \E i \in 1..Len(DigitChars) : SubSeq(DigitChars, i, i) = c

DigitValue(c) == (CHOOSE i \in 1..Len(DigitChars) : SubSeq(DigitChars, i, i) = c) - 1

\* a < b for decimal strings of one length
LexLess(a, b) ==
    \E i \in 1..Len(a) :
        /\ SubSeq(a, 1, i - 1) = SubSeq(b, 1, i - 1)
        /\ DigitValue(SubSeq(a, i, i)) < DigitValue(SubSeq(b, i, i))

\* numeric order of canonical decimal strings
IndexLess(a, b) == Len(a) < Len(b) \/ (Len(a) = Len(b) /\ LexLess(a, b))

\* an array index: the canonical decimal string of an integer below 2^32 - 1
IsArrayIndex(key) ==
    /\ Len(key) > 0
    /\ \A i \in 1..Len(key) : IsDigit(SubSeq(key, i, i))
    /\ Len(key) = 1 \/ SubSeq(key, 1, 1) # "0"
    /\ IndexLess(key, "4294967295")

\* the entries at the positions of `picked`, in insertion order
RECURSIVE InInsertionOrder(_, _, _)
InInsertionOrder(activity, picked, i) ==
    IF i > Len(activity) THEN <<>>
    ELSE (IF i \in picked THEN <<activity[i]>> ELSE <<>>)
            \o InInsertionOrder(activity, picked, i + 1)

\* the entries at the positions of `picked`, by ascending index key
RECURSIVE InIndexOrder(_, _)
InIndexOrder(activity, picked) ==
    IF picked = {} THEN <<>>
    ELSE LET least == CHOOSE i \in picked :
                         \A j \in picked \ {i} : IndexLess(activity[i].id, activity[j].id)
         IN  <<activity[least]>> \o InIndexOrder(activity, picked \ {least})

\* Object.entries: own keys that are array indices ascending, then the other
\* keys in insertion order
ObjectEntries(activity) ==
    LET indexed == {i \in 1..Len(activity) : IsArrayIndex(activity[i].id)}
    IN  InIndexOrder(activity, indexed)
            \o InInsertionOrder(activity, (1..Len(activity)) \ indexed, 1)

NullMax == [isNull |-> TRUE, channelId |-> "", count |-> 0, imageUrl |-> "", name |-> ""]

\* the reducer callback
MaxStep(max, entry) ==
    IF max.isNull \/ entry.count > max.count
    THEN [isNull |-> FALSE, channelId |-> entry.id, count |-> entry.count,
          imageUrl |-> entry.imageUrl, name |-> entry.name]
    ELSE max

RECURSIVE Reduce(_, _)
Reduce(entries, max) ==
    IF entries = <<>> THEN max ELSE Reduce(Tail(entries), MaxStep(max, Head(entries)))

MostActive(activity) == Reduce(ObjectEntries(activity), NullMax)

NullResult == [isNull |-> TRUE, channelImageUrl |-> "", address |-> "", channelName |-> ""]

\* the value returned after the reduction
ResultOf(max, addr) ==
    IF max.isNull THEN NullResult
    ELSE [isNull |-> FALSE, channelImageUrl |-> max.imageUrl, address |-> addr,
          channelName |-> max.name]

\* the resolver's outcome: a returned value or a thrown Error
Return(value) == [threw |-> FALSE, message |-> "", value |-> value]

Throw(message) == [threw |-> TRUE, message |-> message, value |-> NullResult]

\* !address || typeof address !== "string"
InvalidAddress(addr) == addr.kind # "string" \/ addr.str = ""

\* the answers of the two remote calls: a 2xx answer, or the failure axios
\* rejects with (an answer outside 2xx, the 10 s timeout, no connection)
ErrorStatuses == {400, 401, 403, 404, 429, 500, 503}

NoUsers == <<>>

Failures ==
    { [kind |-> "http", status |-> st] : st \in ErrorStatuses }
        \cup { [kind |-> "timeout", status |-> 0], [kind |-> "network", status |-> 0] }

IdentityAnswers(addr) ==
    { [kind |-> "ok", status |-> 200, hasData |-> FALSE, users |-> NoUsers],
      [kind |-> "ok", status |-> 200, hasData |-> TRUE, users |-> NoUsers] }
        \cup { [kind |-> "ok", status |-> 200, hasData |-> TRUE, users |-> (key :> list)] :
                 key \in {addr, ToLowerCase(addr)},
                 list \in {<<>>, <<[fid |-> 3]>>} }

IdentityFailures ==
    { [kind |-> f.kind, status |-> f.status, hasData |-> FALSE, users |-> NoUsers] :
        f \in Failures }

FeedAnswers ==
    { [kind |-> "ok", status |-> 200, hasCasts |-> FALSE, casts |-> <<>>] }
        \cup { [kind |-> "ok", status |-> 200, hasCasts |-> TRUE, casts |-> l] :
                 l \in CastLists(MaxFeedCasts) }

FeedFailures ==
    { [kind |-> f.kind, status |-> f.status, hasCasts |-> FALSE, casts |-> <<>>] :
        f \in Failures }

NoIdentityReply == [kind |-> "none", status |-> 0, hasData |-> FALSE, users |-> NoUsers]

NoFeedReply == [kind |-> "none", status |-> 0, hasCasts |-> FALSE, casts |-> <<>>]

\* !userResponse.data?.[addressKey] || userResponse.data[addressKey].length === 0
IdentityMissing(reply, addressKey) ==
    \/ ~reply.hasData
    \/ addressKey \notin DOMAIN reply.users
    \/ Len(reply.users[addressKey]) = 0

\* castsResponse.data?.casts || []
CastsOf(reply) == IF reply.hasCasts THEN reply.casts ELSE <<>>

\* `${error}` of the error axios rejects with
ErrorString(failure) ==
    CASE failure.kind = "http" ->
            "AxiosError: Request failed with status code " \o DecimalString(failure.status)
      [] failure.kind = "timeout" -> "AxiosError: timeout of 10000ms exceeded"
      [] OTHER -> "AxiosError: Network Error"

\* mutant of ResolverCatch: the server-error test written >= 400
ResolverCatchFrom400(addr, failure) ==
    IF failure.kind = "http" /\ failure.status = 401
    THEN Throw("API authentication failed")
    ELSE IF failure.kind = "http" /\ failure.status = 403
    THEN Throw("Access forbidden (403)")
    ELSE IF failure.kind = "http" /\ failure.status = 404
    THEN Return(NullResult)
    ELSE IF failure.kind = "http" /\ failure.status >= 400
    THEN Throw("Neynar server error")
    ELSE Throw("Failed to fetch most active channel image for address "
                   \o addr \o ": " \o ErrorString(failure))

\* mutant of ResolverCatch: the 404 test left out
ResolverCatchNo404(addr, failure) ==
    IF failure.kind = "http" /\ failure.status = 401
    THEN Throw("API authentication failed")
    ELSE IF failure.kind = "http" /\ failure.status = 403
    THEN Throw("Access forbidden (403)")
    ELSE IF failure.kind = "http" /\ failure.status >= 500
    THEN Throw("Neynar server error")
    ELSE Throw("Failed to fetch most active channel image for address "
                   \o addr \o ": " \o ErrorString(failure))

\* the catch block of the resolver
ResolverCatch(addr, failure) ==
    IF failure.kind = "http" /\ failure.status = 401
    THEN Throw("API authentication failed")
    ELSE IF failure.kind = "http" /\ failure.status = 403
    THEN Throw("Access forbidden (403)")
    ELSE IF failure.kind = "http" /\ failure.status = 404
    THEN Return(NullResult)
    ELSE IF failure.kind = "http" /\ failure.status >= 500
    THEN Throw("Neynar server error")
    ELSE Throw("Failed to fetch most active channel image for address "
                   \o addr \o ": " \o ErrorString(failure))

\* the steps from the cast list to the returned value
AfterFeed(castList, addr) ==
    IF Len(castList) = 0 THEN NullResult
    ELSE ResultOf(MostActive(Aggregate(castList)), addr)

\* ------------------------------------------------------------- handler
\* mutant of AddressMissing: address === undefined
AddressMissingAbsentOnly(addr) == addr.kind = "absent"

\* !address on the query value: undefined and "" are falsy, an array is not
AddressMissing(addr) == addr.kind = "absent" \/ (addr.kind = "string" /\ addr.str = "")

JsonBody(error, message, retryAfter) ==
    [kind |-> "json", error |-> error, message |-> message, retryAfter |-> retryAfter,
     artwork |-> "none"]

PngBody(artwork) ==
    [kind |-> "png", error |-> "", message |-> "", retryAfter |-> {}, artwork |-> artwork]

MissingAddressResponse ==
    [status |-> 400, headers |-> {},
     body |-> JsonBody("Valid Ethereum address is required", "", {})]

\* the first test of the catch block; the Error the resolver throws carries no
\* response property
IsRateLimitError(error) ==
    \/ Includes(error.message, "Rate limit exceeded")
    \/ Includes(error.message, "429")
    \/ (error.hasResponse /\ error.responseStatus = 429)

IsInvalidAddressError(error) == Includes(error.message, "Invalid address")

RateLimitResponse ==
    [status |-> 429,
     headers |-> {<<"Retry-After", "60">>, <<"X-RateLimit-Reset", "Date.now() + 60000">>},
     body |-> JsonBody("Rate limit exceeded. Please try again later.",
                       "Too many requests to external API. Please wait before retrying.",
                       {60})]

InvalidAddressResponse ==
    [status |-> 400, headers |-> {},
     body |-> JsonBody("Invalid Ethereum address provided",
                       "Please provide a valid Ethereum address in 0x format.", {})]

UnavailableResponse ==
    [status |-> 503, headers |-> {<<"Retry-After", "30">>},
     body |-> JsonBody("External API service temporarily unavailable. Please try again later.",
                       "The external API is currently experiencing issues. Please retry in 30 seconds.",
                       {})]

\* mutant of InternalErrorResponse: the outer catch answering as the inner one
InternalErrorAsUnavailable == UnavailableResponse

InternalErrorResponse ==
    [status |-> 500, headers |-> {},
     body |-> JsonBody("Internal server error",
                       "An unexpected error occurred while processing your request.", {})]

\* the catch block around the resolver call
ResolverErrorResponse(error) ==
    IF IsRateLimitError(error) THEN RateLimitResponse
    ELSE IF IsInvalidAddressError(error) THEN InvalidAddressResponse
    ELSE UnavailableResponse

ImageResponse(artwork) ==
    [status |-> 200,
     headers |-> {<<"Content-Type", "image/png">>,
                  <<"Cache-Control", "public, max-age=300">>,
                  <<"X-Content-Type-Options", "nosniff">>,
                  <<"X-Frame-Options", "DENY">>},
     body |-> PngBody(artwork)]

\* mutant of HasChannelImage: the url test left out
HasChannelImageNoUrlTest(res) == ~res.isNull

\* firstMintedArtwork && firstMintedArtwork.channelImageUrl
HasChannelImage(res) == ~res.isNull /\ res.channelImageUrl # ""

\* ------------------------------------------------------------- state
VARIABLES
    address,          \* req.query.address
    pc,               \* the await the request is at
    responses,        \* the responses sent, in order
    templateLoads,    \* loadImage(templatePath) calls issued
    identityCalls,    \* identity lookups issued
    feedCalls,        \* feed lookups issued
    artworkLoads,     \* loadImage(channelImageUrl) calls issued
    placeholderLoads, \* loadImage(placeholder) calls issued
    failedLoads,      \* the image loads that rejected
    identityReply,    \* what the identity lookup settled with
    userFid,          \* the fid passed to the feed lookup
    feedReply,        \* what the feed lookup settled with
    resolverState,    \* "idle", "running", "returned" or "threw"
    thrown,           \* the Error the resolver threw
    result,           \* firstMintedArtwork
    casts,            \* the cast list being aggregated
    scanned,          \* casts the for loop has consumed
    channelActivity,  \* the tally
    mostActive,       \* the reduction's result
    artworkImage      \* what artworkImage holds: "none", "channel", "placeholder"

vars ==
    <<address, pc, responses, templateLoads, identityCalls, feedCalls, artworkLoads,
      placeholderLoads, failedLoads, identityReply, userFid, feedReply, resolverState,
      thrown, result, casts, scanned, channelActivity, mostActive, artworkImage>>

loadVars == <<templateLoads, artworkLoads, placeholderLoads, failedLoads, artworkImage>>

callVars == <<identityCalls, feedCalls, identityReply, userFid, feedReply>>

resolverVars == <<resolverState, thrown, result>>

scanVars == <<casts, scanned, channelActivity, mostActive>>

NoError == [message |-> "", hasResponse |-> FALSE, responseStatus |-> 0]

Idle ==
    /\ responses = <<>>
    /\ templateLoads = 0
    /\ identityCalls = 0
    /\ feedCalls = 0
    /\ artworkLoads = 0
    /\ placeholderLoads = 0
    /\ failedLoads = {}
    /\ identityReply = NoIdentityReply
    /\ userFid = 0
    /\ feedReply = NoFeedReply
    /\ resolverState = "idle"
    /\ thrown = NoError
    /\ result = NullResult
    /\ scanned = 0
    /\ channelActivity = <<>>
    /\ mostActive = NullMax
    /\ artworkImage = "none"

Init ==
    /\ address \in Addresses
    /\ pc = "start"
    /\ casts = <<>>
    /\ Idle

\* res.status(..).json(..) or res.send(..), then the handler returns
Respond(response) ==
    /\ responses' = Append(responses, response)
    /\ pc' = "done"

\* mutant of ResolverThrew: the catch block logs and falls through to the
\* placeholder
ResolverThrewFallsThrough(message) ==
    /\ resolverState' = "threw"
    /\ thrown' = [message |-> message, hasResponse |-> FALSE, responseStatus |-> 0]
    /\ result' = result
    /\ responses' = responses
    /\ pc' = "loadPlaceholder"
    /\ placeholderLoads' = placeholderLoads + 1
    /\ artworkLoads' = artworkLoads

\* the resolver threw: the catch block around its call
ResolverThrew(message) ==
    /\ resolverState' = "threw"
    /\ thrown' = [message |-> message, hasResponse |-> FALSE, responseStatus |-> 0]
    /\ result' = result
    /\ Respond(ResolverErrorResponse(thrown'))
    /\ UNCHANGED <<artworkLoads, placeholderLoads>>

\* the resolver returned: the template is drawn and the artwork load chosen
ResolverReturned(value) ==
    /\ resolverState' = "returned"
    /\ thrown' = thrown
    /\ result' = value
    /\ responses' = responses
    /\ IF HasChannelImage(value)
       THEN /\ pc' = "loadArtwork"
            /\ artworkLoads' = artworkLoads + 1
            /\ placeholderLoads' = placeholderLoads
       ELSE /\ pc' = "loadPlaceholder"
            /\ placeholderLoads' = placeholderLoads + 1
            /\ artworkLoads' = artworkLoads

Settle(outcome) ==
    IF outcome.threw THEN ResolverThrew(outcome.message) ELSE ResolverReturned(outcome.value)

\* the query check
CheckAddress ==
    /\ pc = "start"
    /\ IF AddressMissing(address)
       THEN /\ Respond(MissingAddressResponse)
            /\ templateLoads' = templateLoads
       ELSE /\ pc' = "loadTemplate"
            /\ templateLoads' = templateLoads + 1
            /\ responses' = responses
    /\ UNCHANGED <<address, artworkLoads, placeholderLoads, failedLoads, artworkImage,
                   callVars, resolverVars, scanVars>>

\* the template loaded: the resolver is entered and runs to its first await
TemplateLoaded ==
    /\ pc = "loadTemplate"
    /\ IF InvalidAddress(address)
       THEN /\ Settle(Throw("Invalid address provided"))
            /\ identityCalls' = identityCalls
       ELSE /\ identityCalls' = identityCalls + 1
            /\ resolverState' = "running"
            /\ pc' = "identityLookup"
            /\ UNCHANGED <<responses, thrown, result, artworkLoads, placeholderLoads>>
    /\ UNCHANGED <<address, templateLoads, failedLoads, artworkImage, feedCalls,
                   identityReply, userFid, feedReply, scanVars>>

\* the template load rejected: the outer catch
TemplateFailed ==
    /\ pc = "loadTemplate"
    /\ failedLoads' = failedLoads \cup {"template"}
    /\ Respond(InternalErrorResponse)
    /\ UNCHANGED <<address, templateLoads, artworkLoads, placeholderLoads, artworkImage,
                   callVars, resolverVars, scanVars>>

\* the identity lookup answered 2xx
IdentityAnswered(reply) ==
    /\ pc = "identityLookup"
    /\ identityReply' = reply
    /\ IF IdentityMissing(reply, ToLowerCase(address.str))
       THEN /\ Settle(Return(NullResult))
            /\ UNCHANGED <<userFid, feedCalls>>
       ELSE /\ userFid' = reply.users[ToLowerCase(address.str)][1].fid
            /\ feedCalls' = feedCalls + 1
            /\ pc' = "feedLookup"
            /\ UNCHANGED <<responses, resolverVars, artworkLoads, placeholderLoads>>
    /\ UNCHANGED <<address, templateLoads, failedLoads, artworkImage, identityCalls,
                   feedReply, scanVars>>

\* the identity lookup rejected
IdentityFailed(reply) ==
    /\ pc = "identityLookup"
    /\ identityReply' = reply
    /\ Settle(ResolverCatch(address.str, reply))
    /\ UNCHANGED <<address, templateLoads, failedLoads, artworkImage, identityCalls,
                   feedCalls, userFid, feedReply, scanVars>>

\* the feed lookup answered 2xx: aggregation, reduction and return
FeedAnswered(reply) ==
    /\ pc = "feedLookup"
    /\ feedReply' = reply
    /\ casts' = CastsOf(reply)
    /\ scanned' = Len(casts')
    /\ channelActivity' = Aggregate(casts')
    /\ mostActive' = IF Len(casts') = 0 THEN NullMax ELSE MostActive(channelActivity')
    /\ Settle(Return(AfterFeed(casts', address.str)))
    /\ UNCHANGED <<address, templateLoads, failedLoads, artworkImage, identityCalls,
                   feedCalls, identityReply, userFid>>

\* the feed lookup rejected
FeedFailed(reply) ==
    /\ pc = "feedLookup"
    /\ feedReply' = reply
    /\ Settle(ResolverCatch(address.str, reply))
    /\ UNCHANGED <<address, templateLoads, failedLoads, artworkImage, identityCalls,
                   feedCalls, identityReply, userFid, scanVars>>

\* the channel image loaded: compositing, encoding, the 200 response
ArtworkLoaded ==
    /\ pc = "loadArtwork"
    /\ artworkImage' = "channel"
    /\ Respond(ImageResponse(artworkImage'))
    /\ UNCHANGED <<address, templateLoads, artworkLoads, placeholderLoads, failedLoads,
                   callVars, resolverVars, scanVars>>

\* the channel image load rejected: usePlaceholder, the placeholder load
ArtworkFailed ==
    /\ pc = "loadArtwork"
    /\ failedLoads' = failedLoads \cup {"artwork"}
    /\ placeholderLoads' = placeholderLoads + 1
    /\ pc' = "loadPlaceholder"
    /\ UNCHANGED <<address, responses, templateLoads, artworkLoads, artworkImage,
                   callVars, resolverVars, scanVars>>

\* the placeholder loaded
PlaceholderLoaded ==
    /\ pc = "loadPlaceholder"
    /\ artworkImage' = "placeholder"
    /\ Respond(ImageResponse(artworkImage'))
    /\ UNCHANGED <<address, templateLoads, artworkLoads, placeholderLoads, failedLoads,
                   callVars, resolverVars, scanVars>>

\* the placeholder load rejected: logged, the template alone is sent
PlaceholderFailed ==
    /\ pc = "loadPlaceholder"
    /\ failedLoads' = failedLoads \cup {"placeholder"}
    /\ Respond(ImageResponse(artworkImage))
    /\ UNCHANGED <<address, templateLoads, artworkLoads, placeholderLoads, artworkImage,
                   callVars, resolverVars, scanVars>>

Next ==
    \/ CheckAddress
    \/ TemplateLoaded
    \/ TemplateFailed
    \/ \E reply \in IdentityAnswers(address.str) : IdentityAnswered(reply)
    \/ \E reply \in IdentityFailures : IdentityFailed(reply)
    \/ \E reply \in FeedAnswers : FeedAnswered(reply)
    \/ \E reply \in FeedFailures : FeedFailed(reply)
    \/ ArtworkLoaded
    \/ ArtworkFailed
    \/ PlaceholderLoaded
    \/ PlaceholderFailed

Spec == Init /\ [][Next]_vars

\* every awaited call settles: the remote calls within their 10 s timeout, the
\* image loads when the file system or the image host answers
FairSpec == Spec /\ WF_vars(Next)

\* ------------------------------------------------------------- the scan
ScanAddress == "0x8617E340B3D01FA5F11F306F4090FD50E238070D"

ScanInit ==
    /\ address = [kind |-> "string", str |-> ScanAddress]
    /\ pc = "scan"
    /\ casts \in CastLists(MaxCasts)
    /\ Idle

\* casts.length === 0: return null before the loop
ScanNothing ==
    /\ pc = "scan"
    /\ Len(casts) = 0
    /\ result' = NullResult
    /\ pc' = "returned"
    /\ UNCHANGED <<address, responses, loadVars, callVars, resolverState, thrown, scanVars>>

\* one iteration of the for loop
ScanCast ==
    /\ pc = "scan"
    /\ scanned < Len(casts)
    /\ channelActivity' = ScanStep(channelActivity, casts[scanned + 1])
    /\ scanned' = scanned + 1
    /\ UNCHANGED <<address, pc, responses, loadVars, callVars, resolverVars, casts,
                   mostActive>>

\* the reduction and the return
SelectMostActive ==
    /\ pc = "scan"
    /\ Len(casts) > 0
    /\ scanned = Len(casts)
    /\ mostActive' = MostActive(channelActivity)
    /\ result' = ResultOf(mostActive', address.str)
    /\ pc' = "returned"
    /\ UNCHANGED <<address, responses, loadVars, callVars, resolverState, thrown, casts,
                   scanned, channelActivity>>

ScanNext == ScanNothing \/ ScanCast \/ SelectMostActive

ScanSpec == ScanInit /\ [][ScanNext]_vars

\* ------------------------------------------------------------- claims
TheResponse == responses[1]

Answered(status) == pc = "done" /\ Len(responses) = 1 /\ TheResponse.status = status

Header(name, value) == <<name, value>> \in TheResponse.headers

\* an upstream 429 on either remote call
RateLimitedUpstream ==
    \/ identityReply.kind = "http" /\ identityReply.status = 429
    \/ feedReply.kind = "http" /\ feedReply.status = 429

\* the resolver rejected the address before any remote call
RejectedAsInvalid == resolverState = "threw" /\ identityCalls = 0

\* C1: when the resolver fails for a reason other than upstream rate limiting
\* or invalid input, whatever the address string, the response is 503 with
\* Retry-After: 30; a 429 is sent only when the upstream was rate limited and
\* the 400 "Invalid Ethereum address provided" only when the resolver
\* rejected the address.
C1_OtherFailuresAre503 ==
    (pc = "done" /\ resolverState = "threw") =>
        /\ (~RateLimitedUpstream /\ ~RejectedAsInvalid) =>
               (Answered(503) /\ Header("Retry-After", "30"))
        /\ Answered(429) => RateLimitedUpstream
        /\ (Answered(400) /\ TheResponse.body.error = "Invalid Ethereum address provided")
               => RejectedAsInvalid

\* C2: an upstream 429 on the identity lookup or on the feed lookup makes the
\* resolver fail and the handler answer 429 with Retry-After: 60 and
\* retryAfter: 60 in a JSON body; no image is loaded or sent.
C2_UpstreamRateLimit ==
    RateLimitedUpstream =>
        /\ resolverState = "threw"
        /\ Answered(429)
        /\ Header("Retry-After", "60")
        /\ TheResponse.body.kind = "json"
        /\ TheResponse.body.retryAfter = {60}
        /\ artworkLoads = 0 /\ placeholderLoads = 0

C2_Witness ==
    /\ feedReply.kind = "http" /\ feedReply.status = 429
    /\ address.str = "0x8617E340B3D01FA5F11F306F4090FD50E238070D"
    /\ Answered(429)

\* C3: an absent or empty address is answered 400 "Valid Ethereum address is
\* required" before the template is loaded, with no remote call and no image
\* load.
C3_MissingAddress ==
    (address.kind = "absent" \/ (address.kind = "string" /\ address.str = "")) =>
        /\ templateLoads = 0 /\ identityCalls = 0 /\ feedCalls = 0
        /\ artworkLoads = 0 /\ placeholderLoads = 0
        /\ pc \in {"start", "done"}
        /\ pc = "done" =>
              /\ Answered(400)
              /\ TheResponse.body.error = "Valid Ethereum address is required"

C3_Witness ==
    /\ address = [kind |-> "string", str |-> ""]
    /\ Answered(400)

\* what the claim lists as the ways the resolver ends in NotFound
NoIdentity ==
    /\ identityReply.kind = "ok"
    /\ \/ ~identityReply.hasData
       \/ ToLowerCase(address.str) \notin DOMAIN identityReply.users
       \/ identityReply.users[ToLowerCase(address.str)] = <<>>

NoChannelInFeed ==
    /\ feedReply.kind = "ok"
    /\ \A i \in 1..Len(CastsOf(feedReply)) : ~CastsOf(feedReply)[i].hasChannel

Upstream404 ==
    \/ identityReply.kind = "http" /\ identityReply.status = 404
    \/ feedReply.kind = "http" /\ feedReply.status = 404

CastCount(castList, id) ==
    Cardinality({i \in 1..Len(castList) : castList[i].hasChannel /\ castList[i].id = id})

ChannelIds(castList) == {castList[i].id : i \in {j \in 1..Len(castList) : castList[j].hasChannel}}

FirstCastOf(castList, id) ==
    CHOOSE i \in 1..Len(castList) :
        /\ castList[i].hasChannel /\ castList[i].id = id
        /\ \A j \in 1..(i - 1) : ~(castList[j].hasChannel /\ castList[j].id = id)

\* C5: when some cast has a channel, the selected channel has at least as
\* many casts as every channel of the list, and a channel with strictly more
\* casts than all others is the one selected, in whatever order the casts
\* come.
C5_SelectsMaxCount ==
    (pc = "returned" /\ ChannelIds(casts) # {}) =>
        /\ ~mostActive.isNull
        /\ \A id \in ChannelIds(casts) :
               CastCount(casts, mostActive.channelId) >= CastCount(casts, id)
        /\ \A id \in ChannelIds(casts) :
               (\A other \in ChannelIds(casts) \ {id} :
                    CastCount(casts, id) > CastCount(casts, other))
                   => mostActive.channelId = id

\* the channels tied at the maximum count
TopChannels(castList) ==
    {id \in ChannelIds(castList) :
        \A other \in ChannelIds(castList) : CastCount(castList, id) >= CastCount(castList, other)}

\* C6: when channels tie at the maximum count, whatever the form of their ids,
\* the tied channel whose first cast comes earliest is selected (stated here
\* for the lists free of inherited property names, which C10 covers).
C6_FirstSeenWinsTies ==
    (/\ pc = "returned"
     /\ ChannelIds(casts) # {}
     /\ ChannelIds(casts) \cap ObjectPrototypeKeys = {}) =>
        /\ ~mostActive.isNull
        /\ mostActive.channelId \in TopChannels(casts)
        /\ \A id \in TopChannels(casts) :
               FirstCastOf(casts, mostActive.channelId) <= FirstCastOf(casts, id)

\* C10: after the scan of any cast list the tally has exactly one entry per
\* distinct channel id of the list, with the number of casts naming it as its
\* count (>= 1) and the image url and name of the first cast naming it.
C10_TallyPerChannel ==
    LET seen == SubSeq(casts, 1, scanned)
    IN  pc \in {"scan", "returned"} =>
            /\ {channelActivity[i].id : i \in 1..Len(channelActivity)} = ChannelIds(seen)
            /\ Len(channelActivity) = Cardinality(ChannelIds(seen))
            /\ \A i \in 1..Len(channelActivity) :
                   LET entry == channelActivity[i]
                       first == seen[FirstCastOf(seen, entry.id)]
                   IN  /\ entry.count = CastCount(seen, entry.id)
                       /\ entry.count >= 1
                       /\ entry.imageUrl = ChannelImageUrl(first)
                       /\ entry.name = first.name

\* C7: once the template has loaded and the resolver has returned, the
\* placeholder load is attempted exactly when the result is absent, its
\* channelImageUrl is empty or the channel image load failed, and whatever the
\* two loads do the response is 200 with a PNG.
C7_PlaceholderFallback ==
    resolverState = "returned" =>
        /\ placeholderLoads <= 1
        /\ placeholderLoads = 1 <=>
               (result.isNull \/ result.channelImageUrl = "" \/ "artwork" \in failedLoads)
        /\ pc = "done" => (Answered(200) /\ TheResponse.body.kind = "png")

C7_Witness ==
    /\ resolverState = "returned"
    /\ failedLoads = {"artwork", "placeholder"}
    /\ Answered(200)
    /\ TheResponse.body.artwork = "none"

C9_ResponseShape ==
    /\ Len(responses) <= 1
    /\ pc = "done" <=> Len(responses) = 1
    /\ pc = "done" =>
          /\ TheResponse.status \in {200, 400, 429, 503, 500}
          /\ TheResponse.status = 200 =>
                 (TheResponse.body.kind = "png" /\ Header("Content-Type", "image/png"))
          /\ TheResponse.status # 200 =>
                 (TheResponse.body.kind = "json" /\ TheResponse.body.error # "")
          /\ "template" \in failedLoads =>
                 (TheResponse.status = 500 /\ TheResponse.body.error = "Internal server error")

=============================================================================
